---- MODULE Spec2Model ----
(***************************************************************************)
(* Model of the contract clause segmenter and the compliance orchestration *)
(* of app/contract/utils/law_checker.py, with its callers app/main.py and   *)
(* app/contract/utils/test_run.py.                                          *)
(*                                                                          *)
(* A text is a sequence of one-character strings.  Positions are 1-based;   *)
(* a span [s, e) is the characters s .. e-1.                                *)
(***************************************************************************)
EXTENDS Integers, Sequences, FiniteSets, TLC

\* ------------------------------------------------------------------ bounds
\* longest text of the exhaustive family (every text over Sigma)
MaxLen == 5
\* most lines of a text of the line-structured family
MaxLines == 3
\* most lines of a contract handed to the orchestration
MaxContractLines == 3

\* ------------------------------------------------------- character classes
\* \d of the pattern
IsDigit(c) == c \in {"1", "2"}

\* \s of the pattern, and the characters str.strip() removes
IsSpace(c) == c \in {" ", "\n", "\t"}

IsDot(c) == c = "."

InClass(c, cls) ==
    CASE cls = "space" -> IsSpace(c)
      [] cls = "digit" -> IsDigit(c)
      [] cls = "dot"   -> IsDot(c)
      [] OTHER         -> FALSE

\* characters of the exhaustive family
Sigma == {"1", ".", " ", "\n", "a"}

\* ------------------------------------------------------------ text helpers
\* text[s-1 : e-1] of Python, the span [s, e)
Slice(t, s, e) == IF e <= s THEN <<>> ELSE SubSeq(t, s, e - 1)

RECURSIVE StripLeft(_)
StripLeft(w) ==
    IF w # <<>> /\ IsSpace(Head(w)) THEN StripLeft(Tail(w)) ELSE w

RECURSIVE StripRight(_)
StripRight(w) ==
    IF w # <<>> /\ IsSpace(w[Len(w)])
    THEN StripRight(SubSeq(w, 1, Len(w) - 1))
    ELSE w

\* str.strip()
Strip(w) == StripRight(StripLeft(w))

\* ------------------------------------------------- the pattern and matching
\* faulty variant: r"^(\s*(\d+\.)\s*)", a pattern that knows top-level labels
\* only and does not insist on whitespace after the label
CLAUSE_PATTERN_TopLevelOnly ==
    << [cls |-> "space", min |-> 0, many |-> TRUE],
       [cls |-> "digit", min |-> 1, many |-> TRUE],
       [cls |-> "none",  min |-> 0, many |-> FALSE],
       [cls |-> "none",  min |-> 0, many |-> TRUE],
       [cls |-> "none",  min |-> 0, many |-> FALSE],
       [cls |-> "none",  min |-> 0, many |-> TRUE],
       [cls |-> "dot",   min |-> 1, many |-> FALSE],
       [cls |-> "space", min |-> 0, many |-> TRUE] >>

\* r"^(\s*(\d+\.?\d*\.?\d*\.)\s+)": the items after the ^ anchor, each a
\* greedy quantifier over one character class.  Group 1 is items 1..8,
\* group 2 is items 2..7.
CLAUSE_PATTERN ==
    << [cls |-> "space", min |-> 0, many |-> TRUE],
       [cls |-> "digit", min |-> 1, many |-> TRUE],
       [cls |-> "dot",   min |-> 0, many |-> FALSE],
       [cls |-> "digit", min |-> 0, many |-> TRUE],
       [cls |-> "dot",   min |-> 0, many |-> FALSE],
       [cls |-> "digit", min |-> 0, many |-> TRUE],
       [cls |-> "dot",   min |-> 1, many |-> FALSE],
       [cls |-> "space", min |-> 1, many |-> TRUE] >>

\* the ^ anchor under re.MULTILINE: the start of the text or just after "\n"
AtLineStart(t, s) == s = 1 \/ (s > 1 /\ s <= Len(t) + 1 /\ t[s - 1] = "\n")

RECURSIVE RunLen(_, _, _)
RunLen(t, pos, cls) ==
    IF pos > Len(t) \/ ~InClass(t[pos], cls) THEN 0
    ELSE 1 + RunLen(t, pos + 1, cls)

\* The backtracking matcher: item j takes as many characters as it can and
\* gives them back one at a time while the rest of the pattern fails.  A
\* success is the start of every item followed by the end of the match; a
\* failure is <<>>.
RECURSIVE MatchFrom(_, _, _)
RECURSIVE Backtrack(_, _, _, _)
MatchFrom(t, pos, j) ==
    IF j > Len(CLAUSE_PATTERN) THEN <<pos>>
    ELSE LET it    == CLAUSE_PATTERN[j]
             avail == RunLen(t, pos, it.cls)
             top   == IF it.many \/ avail = 0 THEN avail ELSE 1
         IN  Backtrack(t, pos, j, top)

Backtrack(t, pos, j, n) ==
    IF n < CLAUSE_PATTERN[j].min THEN <<>>
    ELSE LET r == MatchFrom(t, pos + n, j + 1)
         IN  IF r # <<>> THEN <<pos>> \o r
             ELSE Backtrack(t, pos, j, n - 1)

NoMatch == [ok |-> FALSE, s |-> 0, a |-> 0, b |-> 0, e |-> 0]

\* the match that starts at s: group 1 is [s, e), group 2 (the label) is
\* [a, b)
MatchAt(t, s) ==
    IF ~AtLineStart(t, s) THEN NoMatch
    ELSE LET r == MatchFrom(t, s, 1)
         IN  IF r = <<>> THEN NoMatch
             ELSE [ok |-> TRUE, s |-> r[1], a |-> r[2], b |-> r[8], e |-> r[9]]

\* the leftmost match that starts at or after position from
RECURSIVE Search(_, _)
Search(t, from) ==
    IF from > Len(t) THEN NoMatch
    ELSE LET m == MatchAt(t, from)
         IN  IF m.ok THEN m ELSE Search(t, from + 1)

\* re.split with two capturing groups: the text before each match, group 1,
\* group 2, and at the end the text after the last match
RECURSIVE SplitFrom(_, _)
SplitFrom(t, pos) ==
    LET m == Search(t, pos)
    IN  IF ~m.ok THEN << Slice(t, pos, Len(t) + 1) >>
        ELSE << Slice(t, pos, m.s), Slice(t, m.s, m.e), Slice(t, m.a, m.b) >>
             \o SplitFrom(t, m.e)

re_split(t) == SplitFrom(t, 1)

\* ------------------------------------------------- split_text_into_clauses
\* parts[k] of Python (0-based)
Item(parts_, k) == parts_[k + 1]

\* clause_number = parts[i-1].strip()
ClauseNumberAt(parts_, k) == Strip(Item(parts_, k - 1))

\* faulty variant: the body read one stride too early, parts[i-3]
ClauseTextAt_Shifted(parts_, k) == Strip(Item(parts_, k - 3))

\* faulty variant: the preamble parts[0] kept with the first clause
ClauseTextAt_WithPreamble(parts_, k) ==
    IF k = 3 THEN Strip(Item(parts_, 0) \o Item(parts_, 3))
    ELSE Strip(Item(parts_, k))

\* clause_text = parts[i].strip()
ClauseTextAt(parts_, k) == Strip(Item(parts_, k))

\* faulty variant: no test of the trimmed fields
Keep_Always(clause_number, clause_text) == TRUE

\* if clause_number and clause_text
Keep(clause_number, clause_text) == clause_number # <<>> /\ clause_text # <<>>

\* faulty variant: a number already in the list is not appended again
AppendClause_Dedup(acc, clause_number, clause_text) ==
    IF \E m \in 1..Len(acc) : acc[m].number = clause_number THEN acc
    ELSE Append(acc, [number |-> clause_number, text |-> clause_text])

\* clauses.append({"number": ..., "text": ...})
AppendClause(acc, clause_number, clause_text) ==
    Append(acc, [number |-> clause_number, text |-> clause_text])

\* the loop of lines 44-52 from index k on, appended to acc
RECURSIVE ClauseLoop(_, _, _)
ClauseLoop(parts_, k, acc) ==
    IF k >= Len(parts_) THEN acc
    ELSE LET clause_number == ClauseNumberAt(parts_, k)
             clause_text   == ClauseTextAt(parts_, k)
         IN  ClauseLoop(parts_, k + 3,
                 IF Keep(clause_number, clause_text)
                 THEN AppendClause(acc, clause_number, clause_text)
                 ELSE acc)

\* the function as a whole, for its callers
split_text_into_clauses(t) ==
    IF t = <<>> THEN <<>> ELSE ClauseLoop(re_split(t), 3, <<>>)

\* ------------------------------------------------- check_clause_compliance
\* What one remote call (JAMAI_CLIENT.chat.complete) can do: raise, or answer
\* with a text that mentions "non-compliant"/"not compliant", that mentions
\* "partially compliant" and not the former, or that mentions neither.
Outcomes == {"raise", "non", "partial", "plain"}

\* lines 93-98 (test_run.py 84-89): the status read off the response text
StatusOfResponse(o) ==
    CASE o = "non"     -> "Non-Compliant"
      [] o = "partial" -> "Partially Compliant"
      [] OTHER         -> "Compliant"

\* faulty variant: the except clause reports nothing, so a failed call is
\* read like an answer without a verdict
RemoteCheck_SilentFailure(o) ==
    [is_compliant |-> StatusOfResponse(o), reasoning |-> o]

\* lines 83-110 (test_run.py 74-100): the try block and its except clause
RemoteCheck(o) ==
    IF o = "raise"
    THEN [is_compliant |-> "API Error", reasoning |-> "JamAI API call failed"]
    ELSE [is_compliant |-> StatusOfResponse(o), reasoning |-> o]

\* lines 65-69: JAMAI_CLIENT is None
NoClientCheck == [is_compliant |-> "Error", reasoning |-> "JamAI Client not initialized."]

\* lines 145-149: the record check_full_contract appends to results
ResultRecord(clause, compliance_check) ==
    [number |-> clause.number,
     text   |-> clause.text,
     status |-> compliance_check.is_compliant]

\* test_run.py lines 146-150: the record run_test_pipeline appends
PipelineRecord(clause, compliance_check) ==
    [Clause    |-> clause.number,
     Status    |-> compliance_check.is_compliant,
     Reasoning |-> compliance_check.reasoning]

\* a returned Python value: a list, or None
ListValue(items) == [kind |-> "list", items |-> items]
NoneValue == [kind |-> "None", items |-> <<>>]

\* faulty variant: the test for an empty list is missing
NoClauses_Never(cl) == FALSE

\* line 123 (test_run.py line 123): if not clauses
NoClauses(cl) == cl = <<>>

\* main.py line 62: if analysis_results
Truthy(v) == v.kind = "list" /\ v.items # <<>>

\* ------------------------------------------------------------------- state
VARIABLES
    full_text,   \* the argument of split_text_into_clauses
    pc,          \* where the call stands: "start", "loop", "done"
    parts,       \* the list re.split returned
    i,           \* the loop index (0-based, as in the code)
    clauses,     \* the list being built
    src,         \* history: for each record of clauses, the index i that appended it
    ret,         \* the returned list
    entry,       \* the orchestration that runs: check_full_contract or run_test_pipeline
    contract,    \* its text (full_contract_text, extracted_text)
    client,      \* JAMAI_CLIENT: "ready" or "none"
    cpc,         \* where the orchestration stands
    found,       \* the clauses it got from split_text_into_clauses
    ci,          \* its loop index (enumerate, 0-based)
    results,     \* its results list
    ui,          \* what it has shown: st.* calls and prints, in order
    calls,       \* history: the clauses handed to the remote evaluator, in order
    outcomes,    \* history: what the evaluation of each clause met
    cret,        \* the value it returned
    table        \* main.py: what analysis_results was rendered as

svars == <<full_text, pc, parts, i, clauses, src, ret>>
cvars == <<entry, contract, client, cpc, found, ci, results, ui, calls, outcomes, cret, table>>
vars == <<full_text, pc, parts, i, clauses, src, ret,
          entry, contract, client, cpc, found, ci, results, ui, calls, outcomes, cret, table>>

\* ------------------------------------------------------------------ inputs
\* every text over Sigma of at most MaxLen characters
ShortTexts == UNION { [1..n -> Sigma] : n \in 0..MaxLen }

\* lines a contract is made of: clause lines of each depth, indented,
\* empty-bodied, prose, and near misses of the label
Lines ==
    { <<"1", ".", " ", "a">>,
      <<"2", ".", " ", "b">>,
      <<"2", ".", "1", ".", " ", "a", " ", "b">>,
      <<"1", ".", "2", ".", "1", ".", "\t", "a">>,
      <<" ", "1", ".", " ", "a", " ">>,
      <<"1", ".", " ", " ">>,
      <<"2", ".">>,
      <<"a", " ", "1", ".", " ", "b">>,
      <<>>,
      <<"1", ".", ".", " ", "a">>,
      <<"1", ".", "1", ".", "1", ".", "1", ".", " ", "a">>,
      <<"1", ".", "a">> }

RECURSIVE JoinLines(_)
JoinLines(ls) ==
    IF Len(ls) = 0 THEN <<>>
    ELSE IF Len(ls) = 1 THEN ls[1]
    ELSE ls[1] \o <<"\n">> \o JoinLines(Tail(ls))

LineTexts == { JoinLines(ls) : ls \in UNION { [1..n -> Lines] : n \in 1..MaxLines } }

Texts == ShortTexts \cup LineTexts

\* the lines of the contracts handed to the orchestration
ContractLines ==
    { <<"1", ".", " ", "a">>,
      <<"2", ".", "1", ".", " ", "b">>,
      <<"a">> }

ContractTexts ==
    { JoinLines(ls) : ls \in UNION { [1..n -> ContractLines] : n \in 0..MaxContractLines } }

\* -------------------------------------------- split_text_into_clauses, steps
SplitIdle ==
    /\ full_text = <<>>
    /\ pc = "idle"
    /\ parts = <<>>
    /\ i = 0
    /\ clauses = <<>>
    /\ src = <<>>
    /\ ret = <<>>

ContractIdle ==
    /\ entry = "none"
    /\ contract = <<>>
    /\ client = "none"
    /\ cpc = "idle"
    /\ found = <<>>
    /\ ci = 0
    /\ results = <<>>
    /\ ui = <<>>
    /\ calls = <<>>
    /\ outcomes = <<>>
    /\ cret = NoneValue
    /\ table = "none"

Init ==
    /\ full_text \in Texts
    /\ pc = "start"
    /\ parts = <<>>
    /\ i = 0
    /\ clauses = <<>>
    /\ src = <<>>
    /\ ret = <<>>
    /\ ContractIdle

\* lines 34-35: if not full_text: return []
EmptyReturn ==
    /\ pc = "start"
    /\ full_text = <<>>
    /\ ret' = <<>>
    /\ pc' = "done"
    /\ UNCHANGED <<full_text, parts, i, clauses, src>>
    /\ UNCHANGED cvars

\* lines 38-42: parts = re.split(...); clauses = []
SplitText ==
    /\ pc = "start"
    /\ full_text # <<>>
    /\ parts' = re_split(full_text)
    /\ clauses' = <<>>
    /\ src' = <<>>
    /\ i' = 3
    /\ pc' = "loop"
    /\ UNCHANGED <<full_text, ret>>
    /\ UNCHANGED cvars

\* lines 44-52: one iteration of for i in range(3, len(parts), 3)
LoopStep ==
    /\ pc = "loop"
    /\ i < Len(parts)
    /\ LET clause_number == ClauseNumberAt(parts, i)
           clause_text   == ClauseTextAt(parts, i)
       IN  IF Keep(clause_number, clause_text)
           THEN /\ clauses' = AppendClause(clauses, clause_number, clause_text)
                /\ src' = Append(src, i)
           ELSE UNCHANGED <<clauses, src>>
    /\ i' = i + 3
    /\ UNCHANGED <<full_text, pc, parts, ret>>
    /\ UNCHANGED cvars

\* line 54: return clauses
Return ==
    /\ pc = "loop"
    /\ i >= Len(parts)
    /\ ret' = clauses
    /\ pc' = "done"
    /\ UNCHANGED <<full_text, parts, i, clauses, src>>
    /\ UNCHANGED cvars

Next == EmptyReturn \/ SplitText \/ LoopStep \/ Return

Spec == Init /\ [][Next]_vars

Done == pc = "done"

\* ------------------------------------------------------ check_full_contract
InitContract ==
    /\ SplitIdle
    /\ entry \in {"check_full_contract", "run_test_pipeline"}
    /\ contract \in ContractTexts
    /\ client \in {"ready", "none"}
    /\ cpc = "start"
    /\ found = <<>>
    /\ ci = 0
    /\ results = <<>>
    /\ ui = <<>>
    /\ calls = <<>>
    /\ outcomes = <<>>
    /\ cret = NoneValue
    /\ table = "none"

\* lines 119-125: no clauses: the warning and return []
CFC_NoClauses ==
    /\ entry = "check_full_contract"
    /\ cpc = "start"
    /\ LET cl == split_text_into_clauses(contract)
       IN  /\ NoClauses(cl)
           /\ found' = cl
    /\ ui' = ui \o <<"subheader", "warning: could not split">>
    /\ cret' = ListValue(<<>>)
    /\ cpc' = "returned"
    /\ UNCHANGED <<entry, contract, client, ci, results, calls, outcomes, table>>
    /\ UNCHANGED svars

\* lines 119-132: clauses found: the success message, results = []
CFC_Found ==
    /\ entry = "check_full_contract"
    /\ cpc = "start"
    /\ LET cl == split_text_into_clauses(contract)
       IN  /\ ~NoClauses(cl)
           /\ found' = cl
    /\ ui' = ui \o <<"subheader", "success: found clauses">>
    /\ results' = <<>>
    /\ ci' = 0
    /\ cpc' = "loop"
    /\ UNCHANGED <<entry, contract, client, calls, outcomes, cret, table>>
    /\ UNCHANGED svars

\* lines 134-149 with lines 65-69: one iteration, JAMAI_CLIENT is None
CFC_CheckNoClient ==
    /\ entry = "check_full_contract"
    /\ cpc = "loop"
    /\ ci < Len(found)
    /\ client = "none"
    /\ results' = Append(results, ResultRecord(found[ci + 1], NoClientCheck))
    /\ outcomes' = Append(outcomes, "no client")
    /\ ci' = ci + 1
    /\ UNCHANGED <<entry, contract, client, cpc, found, ui, calls, cret, table>>
    /\ UNCHANGED svars

\* lines 134-149 with lines 71-110: one iteration, the remote call made
CFC_CheckRemote(o) ==
    /\ entry = "check_full_contract"
    /\ cpc = "loop"
    /\ ci < Len(found)
    /\ client = "ready"
    /\ calls' = Append(calls, found[ci + 1])
    /\ outcomes' = Append(outcomes, o)
    /\ ui' = IF o = "raise" THEN Append(ui, "error: api call failed") ELSE ui
    /\ results' = Append(results, ResultRecord(found[ci + 1], RemoteCheck(o)))
    /\ ci' = ci + 1
    /\ UNCHANGED <<entry, contract, client, cpc, found, cret, table>>
    /\ UNCHANGED svars

\* after line 149: the loop is over and the function ends without a return
\* statement, so the call evaluates to None
CFC_End ==
    /\ entry = "check_full_contract"
    /\ cpc = "loop"
    /\ ci >= Len(found)
    /\ cret' = NoneValue
    /\ cpc' = "returned"
    /\ UNCHANGED <<entry, contract, client, found, ci, results, ui, calls, outcomes, table>>
    /\ UNCHANGED svars

\* main.py lines 60-86: analysis_results is rendered when it is truthy, as
\* the columns number, status, reasoning (a KeyError when one is missing)
Main_Render ==
    /\ entry = "check_full_contract"
    /\ cpc = "returned"
    /\ table' = IF ~Truthy(cret) THEN "none"
                ELSE IF \A k \in 1..Len(cret.items) :
                            {"number", "status", "reasoning"} \subseteq DOMAIN cret.items[k]
                     THEN "rendered"
                     ELSE "KeyError"
    /\ cpc' = "done"
    /\ UNCHANGED <<entry, contract, client, found, ci, results, ui, calls, outcomes, cret>>
    /\ UNCHANGED svars

\* --------------------------------------------------------- run_test_pipeline
\* test_run.py lines 113-115: nothing extracted
RTP_Blank ==
    /\ entry = "run_test_pipeline"
    /\ cpc = "start"
    /\ Strip(contract) = <<>>
    /\ ui' = Append(ui, "print: extraction failed")
    /\ cpc' = "done"
    /\ UNCHANGED <<entry, contract, client, found, ci, results, calls, outcomes, cret, table>>
    /\ UNCHANGED svars

\* test_run.py lines 119-125: no clauses
RTP_NoClauses ==
    /\ entry = "run_test_pipeline"
    /\ cpc = "start"
    /\ Strip(contract) # <<>>
    /\ LET cl == split_text_into_clauses(contract)
       IN  /\ NoClauses(cl)
           /\ found' = cl
    /\ ui' = ui \o <<"print: extracted", "print: splitting failed">>
    /\ cpc' = "done"
    /\ UNCHANGED <<entry, contract, client, ci, results, calls, outcomes, cret, table>>
    /\ UNCHANGED svars

\* test_run.py lines 119-127: clauses found
RTP_Found ==
    /\ entry = "run_test_pipeline"
    /\ cpc = "start"
    /\ Strip(contract) # <<>>
    /\ LET cl == split_text_into_clauses(contract)
       IN  /\ ~NoClauses(cl)
           /\ found' = cl
    /\ ui' = ui \o <<"print: extracted", "print: split into clauses">>
    /\ cpc' = "client"
    /\ UNCHANGED <<entry, contract, client, ci, results, calls, outcomes, cret, table>>
    /\ UNCHANGED svars

\* test_run.py lines 132-134: no client, nothing is checked
RTP_NoClient ==
    /\ entry = "run_test_pipeline"
    /\ cpc = "client"
    /\ client = "none"
    /\ ui' = Append(ui, "print: cannot run compliance check")
    /\ cpc' = "done"
    /\ UNCHANGED <<entry, contract, client, found, ci, results, calls, outcomes, cret, table>>
    /\ UNCHANGED svars

\* test_run.py line 136: results = []
RTP_Start ==
    /\ entry = "run_test_pipeline"
    /\ cpc = "client"
    /\ client = "ready"
    /\ results' = <<>>
    /\ ci' = 0
    /\ cpc' = "loop"
    /\ UNCHANGED <<entry, contract, client, found, ui, calls, outcomes, cret, table>>
    /\ UNCHANGED svars

\* test_run.py lines 138-150: one iteration
RTP_Check(o) ==
    /\ entry = "run_test_pipeline"
    /\ cpc = "loop"
    /\ ci < Len(found)
    /\ calls' = Append(calls, found[ci + 1])
    /\ outcomes' = Append(outcomes, o)
    /\ results' = Append(results, PipelineRecord(found[ci + 1], RemoteCheck(o)))
    /\ ci' = ci + 1
    /\ UNCHANGED <<entry, contract, client, cpc, found, ui, cret, table>>
    /\ UNCHANGED svars

\* test_run.py lines 152-159: the table is printed
RTP_End ==
    /\ entry = "run_test_pipeline"
    /\ cpc = "loop"
    /\ ci >= Len(found)
    /\ ui' = Append(ui, "print: results table")
    /\ table' = "rendered"
    /\ cpc' = "done"
    /\ UNCHANGED <<entry, contract, client, found, ci, results, calls, outcomes, cret>>
    /\ UNCHANGED svars

NextContract ==
    \/ CFC_NoClauses
    \/ CFC_Found
    \/ CFC_CheckNoClient
    \/ \E o \in Outcomes : CFC_CheckRemote(o)
    \/ CFC_End
    \/ Main_Render
    \/ RTP_Blank
    \/ RTP_NoClauses
    \/ RTP_Found
    \/ RTP_NoClient
    \/ RTP_Start
    \/ \E o \in Outcomes : RTP_Check(o)
    \/ RTP_End

SpecContract == InitContract /\ [][NextContract]_vars


\* =========================================================================
\* Properties of split_text_into_clauses (checked under Spec)
\* =========================================================================
\* The boundaries of a text, stated without the matcher: a marker at line
\* start s is optional whitespace, a label, and at least one whitespace
\* character; the detected boundaries are the markers met by a left-to-right
\* scan that resumes where the last marker ended.
SpanEnd(t, p, In(_)) ==
    CHOOSE q \in p..(Len(t) + 1) :
        /\ \A r \in p..(q - 1) : In(t[r])
        /\ q = Len(t) + 1 \/ ~In(t[q])

IsLabelChar(c) == IsDigit(c) \/ IsDot(c)

DotCount(w) == Cardinality({k \in 1..Len(w) : w[k] = "."})

\* the words of \d+\.?\d*\.?\d*\. : a digit first, a period last, digits and
\* periods between, at most three periods
PatternLabel(w) ==
    /\ w # <<>>
    /\ IsDigit(w[1])
    /\ w[Len(w)] = "."
    /\ \A k \in 1..Len(w) : IsLabelChar(w[k])
    /\ DotCount(w) <= 3

\* INT ('.' INT)? ('.' INT)? '.' : as above with every group non-empty
GrammarLabel(w) ==
    /\ PatternLabel(w)
    /\ \A k \in 1..(Len(w) - 1) : ~(w[k] = "." /\ w[k + 1] = ".")

MarkerOf(t, s) ==
    LET a == SpanEnd(t, s, IsSpace)
        b == SpanEnd(t, a, IsLabelChar)
        e == SpanEnd(t, b, IsSpace)
    IN  [s |-> s, a |-> a, b |-> b, e |-> e]

IsMarker(t, s, IsLabel(_)) ==
    /\ s = 1 \/ t[s - 1] = "\n"
    /\ LET m == MarkerOf(t, s)
       IN  IsLabel(Slice(t, m.a, m.b)) /\ m.e > m.b

RECURSIVE Scan(_, _)
Scan(t, from) ==
    LET S == {s \in from..Len(t) : IsMarker(t, s, PatternLabel)}
    IN  IF S = {} THEN <<>>
        ELSE LET s == CHOOSE x \in S : \A y \in S : x <= y
             IN  <<MarkerOf(t, s)>> \o Scan(t, MarkerOf(t, s).e)

Boundaries(t) == Scan(t, 1)

Trim(w) ==
    LET K == {k \in 1..Len(w) : ~IsSpace(w[k])}
    IN  IF K = {} THEN <<>>
        ELSE SubSeq(w, CHOOSE x \in K : \A y \in K : x <= y,
                       CHOOSE x \in K : \A y \in K : x >= y)

Trimmed(w) == w # <<>> /\ ~IsSpace(w[1]) /\ ~IsSpace(w[Len(w)])

LabelOf(t, B, k) == Slice(t, B[k].a, B[k].b)

\* the text between the end of marker k and the start of the next marker, or
\* the end of the text
BodyOf(t, B, k) ==
    Trim(Slice(t, B[k].e, IF k < Len(B) THEN B[k + 1].s ELSE Len(t) + 1))

Candidates(t, B) ==
    [k \in 1..Len(B) |-> [number |-> LabelOf(t, B, k), text |-> BodyOf(t, B, k)]]

HasBody(r) == r.text # <<>>

\* the boundaries whose trimmed body is not empty
KeptSet(t, B) == {k \in 1..Len(B) : BodyOf(t, B, k) # <<>>}

\* "1. a\n2. b\n2.1. a b"
Scenario1 ==
    <<"1", ".", " ", "a", "\n", "2", ".", " ", "b", "\n",
      "2", ".", "1", ".", " ", "a", " ", "b">>

\* "1.  \n2. b"
Scenario3 == <<"1", ".", " ", " ", "\n", "2", ".", " ", "b">>

C2_LabelsMatchGrammar ==
    Done => \A j \in 1..Len(ret) :
                Trimmed(ret[j].number) /\ GrammarLabel(ret[j].number)

C4_NoMarkerGivesEmpty ==
    (/\ Done
     /\ \/ full_text = <<>>
        \/ \A k \in 1..Len(full_text) : IsSpace(full_text[k])
        \/ ~\E s \in 1..Len(full_text) : IsMarker(full_text, s, GrammarLabel))
    => ret = <<>>

\* C5: the text before the first detected boundary is discarded: there are no
\* more records than boundaries, every body is cut from the text after the
\* marker of its own boundary, and the output is the output of the text with
\* the preamble removed.
C5_PreambleDiscarded ==
    (Done /\ Boundaries(full_text) # <<>>) =>
        LET B == Boundaries(full_text)
        IN  /\ Len(ret) <= Len(B)
            /\ Len(src) = Len(ret)
            /\ \A j \in 1..Len(ret) :
                   /\ src[j] >= 3
                   /\ src[j] % 3 = 0
                   /\ (src[j] \div 3) <= Len(B)
                   /\ B[src[j] \div 3].e > B[1].s
                   /\ ret[j].text = BodyOf(full_text, B, src[j] \div 3)
            /\ ret = split_text_into_clauses(Slice(full_text, B[1].s, Len(full_text) + 1))

C5_Witness ==
    /\ Done
    /\ ret # <<>>
    /\ Boundaries(full_text) # <<>>
    /\ \E p \in 1..(Boundaries(full_text)[1].s - 1) : ~IsSpace(full_text[p])

MultiGroupLineAt(t, p) ==
    /\ p = 1 \/ t[p - 1] = "\n"
    /\ IsDigit(t[p])
    /\ LET q == SpanEnd(t, p, IsLabelChar)
       IN  /\ GrammarLabel(Slice(t, p, q))
           /\ DotCount(Slice(t, p, q)) >= 2
           /\ q <= Len(t)
           /\ IsSpace(t[q])

\* C7: where a line starts with a label of two or three groups followed by
\* whitespace, the whole label is one boundary: the split holds it as one
\* label, the record of that boundary (there is one when its body is not
\* empty) carries the whole label, and no record carries a proper prefix.
C7_WholeLabel ==
    Done => \A p \in 1..Len(full_text) :
        MultiGroupLineAt(full_text, p) =>
            LET q == SpanEnd(full_text, p, IsLabelChar)
                w == Slice(full_text, p, q)
                B == Boundaries(full_text)
            IN  \E k \in 1..Len(B) :
                    /\ B[k].a = p
                    /\ B[k].b = q
                    /\ 3 * k <= Len(parts)
                    /\ parts[3 * k] = w
                    /\ k \in KeptSet(full_text, B) =>
                           \E j \in 1..Len(ret) : src[j] = 3 * k
                    /\ \A j \in 1..Len(ret) :
                           src[j] = 3 * k => ret[j].number = w

C7_Witness ==
    /\ Done
    /\ \E p \in 1..Len(full_text) : MultiGroupLineAt(full_text, p)
    /\ \E j \in 1..Len(ret) : DotCount(ret[j].number) = 3

\* =========================================================================
\* Properties of the orchestration (checked under SpecContract)
\* =========================================================================
InCFC == entry = "check_full_contract" /\ cpc \in {"loop", "returned", "done"}

CFCOver == entry = "check_full_contract" /\ cpc \in {"returned", "done"}

Verdicts == {"Compliant", "Partially Compliant", "Non-Compliant"}

\* C8: in check_full_contract a failed remote call becomes the failure status
\* of its own clause and nothing else: the clauses go to the evaluator once
\* each, in document order, every clause gets its record, a record has the
\* failure status exactly when its own call failed, the status of a clause
\* whose call answered is the verdict of that answer, and the batch ends only
\* after the last clause.
C8_FailureIsPerClause ==
    InCFC =>
        /\ Len(results) = ci
        /\ Len(outcomes) = ci
        /\ ci <= Len(found)
        /\ client = "ready" => calls = SubSeq(found, 1, ci)
        /\ \A k \in 1..ci :
               /\ results[k].number = found[k].number
               /\ results[k].text = found[k].text
               /\ (results[k].status = "API Error") <=> (outcomes[k] = "raise")
               /\ outcomes[k] = "non" => results[k].status = "Non-Compliant"
               /\ outcomes[k] = "partial" => results[k].status = "Partially Compliant"
               /\ outcomes[k] = "plain" => results[k].status = "Compliant"
        /\ CFCOver => ci = Len(found)

C8_Witness ==
    /\ CFCOver
    /\ \E k \in 1..Len(outcomes) : \E h \in 1..Len(outcomes) :
           /\ k < h
           /\ outcomes[k] = "raise"
           /\ outcomes[h] \in {"non", "partial", "plain"}
           /\ results[h].status \in Verdicts

\* C9: for a contract of n >= 1 clauses check_full_contract returns n records
\* in document order, the k-th with the k-th clause's number and with the
\* status and the reasoning of that clause's evaluation, which the caller
\* renders as the columns number, status, reasoning.
C9_ReturnsRecords ==
    (CFCOver /\ found # <<>>) =>
        /\ cret.kind = "list"
        /\ Len(cret.items) = Len(found)
        /\ \A k \in 1..Len(cret.items) :
               /\ {"number", "status", "reasoning"} \subseteq DOMAIN cret.items[k]
               /\ cret.items[k].number = found[k].number
               /\ cret.items[k].status = results[k].status
        /\ cpc = "done" => table = "rendered"

\* C10: when the text yields no clause the orchestration shows its
\* could-not-split message, makes no evaluator call and produces no result
\* (check_full_contract returns the empty list); a text that yields clauses
\* never ends in that outcome.
C10_NoClausesIsDistinct ==
    /\ (CFCOver /\ found = <<>>) =>
           /\ ui = <<"subheader", "warning: could not split">>
           /\ calls = <<>>
           /\ outcomes = <<>>
           /\ results = <<>>
           /\ cret = ListValue(<<>>)
    /\ (CFCOver /\ found # <<>>) =>
           /\ \A k \in 1..Len(ui) : ui[k] # "warning: could not split"
           /\ cret # ListValue(<<>>)
    /\ (entry = "run_test_pipeline" /\ cpc = "done" /\ found = <<>>
            /\ Strip(contract) # <<>>) =>
           /\ ui[Len(ui)] = "print: splitting failed"
           /\ calls = <<>>
           /\ results = <<>>
           /\ table = "none"
    /\ (entry = "run_test_pipeline" /\ cpc = "done" /\ found # <<>>) =>
           \A k \in 1..Len(ui) : ui[k] # "print: splitting failed"

C10_Witness ==
    /\ CFCOver
    /\ contract # <<>>
    /\ found = <<>>
    /\ cret = ListValue(<<>>)
====
